---- MODULE Spec2Model ----
(***************************************************************************)
(* A model of hldup: the sampled fingerprint (hashcache.rs), the cache of  *)
(* fingerprints (hashcache.rs), the byte-exact verifier and the link       *)
(* eligibility policy (main.rs, dupchecks.rs), the backup/link/cleanup     *)
(* replacement (utils.rs) and the loop of dedup_files (main.rs).           *)
(*                                                                         *)
(* The filesystem is a directory `dir` from paths to the object each path  *)
(* names (or NoFile).  An object is [dev, ino, data]: the identity the     *)
(* kernel reports through metadata() and the bytes read through it.  The   *)
(* program never writes file contents, so objects are immutable and only   *)
(* `dir` changes (rename, link, unlink).  Only regular files are modelled. *)
(***************************************************************************)
EXTENDS Integers, Sequences, FiniteSets, TLC

VARIABLES
    dir,      \* the filesystem: path -> object or NoFile
    dir0,     \* the filesystem when the run started (never changes)
    mnt,      \* device id of the filesystem holding each directory
    cache,    \* the HashCache under construction / given to dedup_files
    mode,     \* PromptUserMode of the run
    pc,       \* position of the program
    todo,     \* dedup_files: duplicate groups not yet visited
    pending,  \* dedup_files: pairs of the current group not yet visited
    frame,    \* locals of the running call (left, right, did_backup, ...)
    out,      \* the value returned by the last call
    hist,     \* what has happened so far (calls made, failures seen)
    inp       \* arguments of the pure functions under test

vars == <<dir, dir0, mnt, cache, mode, pc, todo, pending, frame, out, hist, inp>>

(***************************************************************************)
(* Bounds of the model.                                                    *)
(***************************************************************************)
\* Longest file content, in bytes.
MaxLen == 2
\* Longest chain of ".bak" suffixes a path may carry.
MaxBak == 1
\* Most roots given on the command line.
MaxRoots == 2
\* The source reads 32 MiB per side and per round (dupchecks.rs:14); the model
\* scales the buffer down so that a file spans several rounds of the loop.
COMPARE_READ_BUFFSIZE == 1
\* Longest content of the files of a whole run (scan, dedup_files, hard_link).
MaxFileLen == 1

Bytes == {0, 1}
Devs == {1, 2}
Inos == {1, 2, 3}
Names == {1, 2, 3}

Data == UNION {[1..n -> Bytes] : n \in 0..MaxLen}
FileData == {x \in Data : Len(x) <= MaxFileLen}

NoFile == [dev |-> 0, ino |-> 0, data |-> <<>>]

(***************************************************************************)
(* Paths.  A path is a file name followed by `bak` copies of the suffix    *)
(* ".bak"; PathBuf's order is lexicographic, so a path sorts before the    *)
(* same path with one more suffix.                                         *)
(***************************************************************************)
Paths == [name : Names, bak : 0..(MaxBak + 1)]
ArgPaths == {p \in Paths : p.bak <= MaxBak}
Path(n) == [name |-> n, bak |-> 0]

PathLt(p, q) == p.name < q.name \/ (p.name = q.name /\ p.bak < q.bak)

\* utils.rs: right.with_extension(old_ext + ".bak")
tmp_right_path(right) == [right EXCEPT !.bak = @ + 1]

exists(d, p) == d[p] # NoFile

(***************************************************************************)
(* utils.rs constants                                                      *)
(***************************************************************************)
KB == 1024
MB == 1024 * KB
\* GB = 1024 * MB = 2^30; 16 * GB = 2^34 is used only through its ilog2.
GB == 1024 * MB

(***************************************************************************)
(* hashcache.rs: the sampled fingerprint                                   *)
(***************************************************************************)
SAMPLE_SIZE == 8 * 1024
MIN_SAMPLES == 2
MIN_SAMPLES_MAX == 1 * MB
MAX_SAMPLES == 4
\* ilog2(MAX_SAMPLES_MIN) with MAX_SAMPLES_MIN = 16 * GB.
MAX_SAMPLES_MIN_ILOG2 == 34

Min(a, b) == IF a < b THEN a ELSE b

RECURSIVE ilog2(_)
\* u64::ilog2 for n > 0 (it panics for n = 0: see calculate_skiplen).
ilog2(n) == IF n < 2 THEN 0 ELSE 1 + ilog2(n \div 2)

\* A slip in calculate_skiplen: no early return for small files, so that
\* ilog2 is asked for 0 on an empty file.
calculate_skiplen_noguard(filesize, buffsize, overflow_checks) ==
    IF filesize = 0
    THEN [panic |-> TRUE, val |-> 0]
    ELSE LET samples == Min(MIN_SAMPLES
                 + (ilog2(filesize) * (MAX_SAMPLES - MIN_SAMPLES))
                     \div (MAX_SAMPLES_MIN_ILOG2 - ilog2(MIN_SAMPLES_MAX)),
                 MAX_SAMPLES)
             diff == (filesize \div samples) - buffsize
         IN  [panic |-> diff < 0 /\ overflow_checks, val |-> diff]

\* The result is [panic, val]: panic when ilog2 is asked for 0, or when the
\* unsigned subtraction underflows in a build with overflow checks; without
\* them the wrapped u64 cast to i64 is the (negative) difference itself.
calculate_skiplen(filesize, buffsize, overflow_checks) ==
    IF filesize <= MIN_SAMPLES * buffsize
    THEN [panic |-> FALSE, val |-> 0]
    ELSE IF filesize = 0
    THEN [panic |-> TRUE, val |-> 0]
    ELSE LET size_factor == ilog2(filesize)
             samples0 == MIN_SAMPLES
                 + (size_factor * (MAX_SAMPLES - MIN_SAMPLES))
                     \div (MAX_SAMPLES_MIN_ILOG2 - ilog2(MIN_SAMPLES_MAX))
             samples == Min(samples0, MAX_SAMPLES)
             diff == (filesize \div samples) - buffsize
         IN  [panic |-> diff < 0 /\ overflow_checks, val |-> diff]

\* SeaHasher::new / write / finish: an order-sensitive 64-bit hash of the bytes
\* fed to it, modelled by a polynomial hash.
SeaNew == 7

RECURSIVE SeaWrite(_, _)
SeaWrite(h, bytes) ==
    IF bytes = <<>> THEN h
    ELSE SeaWrite((h * 31 + Head(bytes) + 1) % 65521, Tail(bytes))

\* read_exact_or_end on a file of contents `data` with the cursor at `pos`:
\* the number of bytes read into a buffer of `buflen` bytes.
read_exact_or_end(data, pos, buflen) ==
    IF pos >= Len(data) THEN 0 ELSE Min(buflen, Len(data) - pos)

RECURSIVE SampleLoop(_, _, _, _)
\* The loop of from_path: read a chunk at the cursor, hash it, stop on a short
\* read, else seek forward by skiplen.
SampleLoop(data, pos, skiplen, h) ==
    LET read_count == read_exact_or_end(data, pos, SAMPLE_SIZE)
        h2 == SeaWrite(h, SubSeq(data, pos + 1, pos + read_count))
    IN  IF read_count # SAMPLE_SIZE THEN h2
        ELSE SampleLoop(data, pos + read_count + skiplen, skiplen, h2)

\* FileHashes::from_path on an opened file with contents `data`.  The size is
\* taken by seek(SeekFrom::End(0)), which leaves the cursor at the end of the
\* file; the loop then reads from there.
from_path(data) ==
    LET size == Len(data)
        skip == calculate_skiplen(size, SAMPLE_SIZE, FALSE)
    IN  IF skip.panic THEN [kind |-> "panic"]
        ELSE [kind |-> "ok",
              hashes |-> [sea |-> SampleLoop(data, size, skip.val, SeaNew),
                          size |-> size]]

(***************************************************************************)
(* hashcache.rs: HashCache, a map from FileHashes to the set of paths      *)
(* having it.  Modelled as a function whose domain is the set of keys.     *)
(***************************************************************************)
HashCacheNew == [k \in {} |-> {}]

\* self.inner.entry(hashes).or_default().insert(path)
insert(self, path, hashes) ==
    IF hashes \in DOMAIN self
    THEN [self EXCEPT ![hashes] = @ \cup {path}]
    ELSE (hashes :> {path}) @@ self

\* A slip in join: the entry is overwritten (insert(k, v)) instead of extended.
overwrite_entry(self, k, v) ==
    IF k \in DOMAIN self
    THEN [self EXCEPT ![k] = v]
    ELSE (k :> v) @@ self

\* One round of the loop of join: self.inner.entry(k).or_default().extend(v)
extend_entry(self, k, v) ==
    IF k \in DOMAIN self
    THEN [self EXCEPT ![k] = @ \cup v]
    ELSE (k :> v) @@ self

RECURSIVE JoinLoop(_, _, _)
\* for (k, v) in other.inner { ... }: the keys of `other` still to visit.
JoinLoop(self, other, keys) ==
    IF keys = {} THEN self
    ELSE LET k == CHOOSE x \in keys : TRUE
         IN  JoinLoop(extend_entry(self, k, other[k]), other, keys \ {k})

join(self, other) == JoinLoop(self, other, DOMAIN other)

RECURSIVE FromIterLoop(_, _)
FromIterLoop(base, iter) ==
    IF iter = <<>> THEN base
    ELSE FromIterLoop(join(base, Head(iter)), Tail(iter))

\* impl FromIterator<HashCache> for HashCache
from_iter(iter) == FromIterLoop(HashCacheNew, iter)

\* The keys whose path-set is returned by duplicates(): buf.len() >= 2.
duplicates(self) == {k \in DOMAIN self : Cardinality(self[k]) >= 2}

(***************************************************************************)
(* main.rs: build_hash_cache.  A root is a directory; the directory of     *)
(* file name n lies inside the directories of all names below n, so root r *)
(* holds the names >= r and roots overlap.  `files` are the entries of the *)
(* walk that were read and hashed without an I/O error (the others are     *)
(* logged and skipped).                                                    *)
(***************************************************************************)
Under(d, root) == {p \in Paths : p.name >= root /\ exists(d, p)}

RECURSIVE BuildLoop(_, _, _)
BuildLoop(retvl, d, files) ==
    IF files = {} THEN retvl
    ELSE LET path == CHOOSE p \in files : TRUE
             hash == from_path(d[path].data)
         IN  BuildLoop(insert(retvl, path, hash.hashes), d, files \ {path})

\* A slip in build_hash_cache: every entry is filed under the hash of the
\* first entry of the walk instead of its own.
build_hash_cache_stale(d, files) ==
    IF files = {} THEN HashCacheNew
    ELSE LET first == CHOOSE p \in files : \A q \in files : p = q \/ PathLt(p, q)
             hash == from_path(d[first].data)
         IN  [k \in {hash.hashes} |-> files]

build_hash_cache(d, files) == BuildLoop(HashCacheNew, d, files)

\* from_path hits a panic on one of the files hashed.
HashPanics(d, files) == \E p \in files : from_path(d[p].data).kind = "panic"

(***************************************************************************)
(* Metadata.  symlink_metadata and metadata agree on regular files; both   *)
(* fail on a path that names nothing.                                      *)
(***************************************************************************)
file_type(obj) == "file"
size(obj) == Len(obj.data)

(***************************************************************************)
(* dupchecks.rs / main.rs: is_same_file                                    *)
(***************************************************************************)
RECURSIVE CompareLoop(_, _, _, _)
\* The lock-step loop: the two cursors, one buffer of COMPARE_READ_BUFFSIZE
\* bytes per side.
CompareLoop(ldata, rdata, lpos, rpos) ==
    LET read_left == read_exact_or_end(ldata, lpos, COMPARE_READ_BUFFSIZE)
        left_subbuf == SubSeq(ldata, lpos + 1, lpos + read_left)
        read_right == read_exact_or_end(rdata, rpos, COMPARE_READ_BUFFSIZE)
        right_subbuf == SubSeq(rdata, rpos + 1, rpos + read_right)
    IN  IF left_subbuf # right_subbuf THEN FALSE
        ELSE IF read_left # COMPARE_READ_BUFFSIZE THEN TRUE
        ELSE CompareLoop(ldata, rdata, lpos + read_left, rpos + read_right)

\* Ok(true) / Ok(false) / Err(io::Error)
is_same_file(d, left, right) ==
    IF ~exists(d, left) \/ ~exists(d, right) THEN [kind |-> "err"]
    ELSE LET left_meta == d[left]
             right_meta == d[right]
         IN  IF file_type(left_meta) # file_type(right_meta)
                  \/ size(left_meta) # size(right_meta)
             THEN [kind |-> "ok", val |-> FALSE]
             ELSE IF left_meta.ino = right_meta.ino
             THEN [kind |-> "ok", val |-> TRUE]
             ELSE [kind |-> "ok",
                   val |-> CompareLoop(left_meta.data, right_meta.data, 0, 0)]

(***************************************************************************)
(* main.rs: PromptUserMode, prompt_bool, should_link                       *)
(***************************************************************************)
PromptUserMode == {"DefaultYes", "DefaultNo", "Prompt"}

\* A slip in as_default: the two defaults are swapped.
as_default_swapped(m) ==
    CASE m = "DefaultNo" -> [some |-> TRUE, val |-> TRUE]
      [] m = "DefaultYes" -> [some |-> TRUE, val |-> FALSE]
      [] OTHER -> [some |-> FALSE, val |-> FALSE]

\* as_default: Some(bool) or None
as_default(m) ==
    CASE m = "DefaultNo" -> [some |-> TRUE, val |-> FALSE]
      [] m = "DefaultYes" -> [some |-> TRUE, val |-> TRUE]
      [] OTHER -> [some |-> FALSE, val |-> FALSE]

YES_RESPONSES == {"y", "Y", "yes", "Yes", "YES"}

\* What stdin().lines().next() can give: a line, or None at end of input.
EOF == "<eof>"
Lines == {"y", "YES", "n", "", EOF}

\* prompt_bool: .next().unwrap() panics at end of input.
prompt_bool(line) ==
    IF line = EOF THEN [kind |-> "panic"]
    ELSE [kind |-> "ok", val |-> line \in YES_RESPONSES]

\* Ok(Ok(())) is "yes", Ok(Err(reason)) is "no", Err(io::Error) is "err".
\* `line` is what stdin holds, read only when the mode prompts.
should_link(d, left, right, prompt_mode, line) ==
    IF ~exists(d, left) \/ ~exists(d, right) THEN [kind |-> "err"]
    ELSE LET left_meta == d[left]
             right_meta == d[right]
         IN  IF left_meta.ino = right_meta.ino
             THEN [kind |-> "no", reason |-> <<"AlreadyLinked">>]
             ELSE IF left_meta.dev # right_meta.dev
             THEN [kind |-> "no",
                   reason |-> <<"DifferentFilesystems", left_meta.dev, right_meta.dev>>]
             ELSE LET dflt == as_default(prompt_mode)
                      user_resp == IF dflt.some THEN [kind |-> "ok", val |-> dflt.val]
                                   ELSE prompt_bool(line)
                  IN  IF user_resp.kind = "panic" THEN [kind |-> "panic"]
                      ELSE IF user_resp.val THEN [kind |-> "yes"]
                      ELSE [kind |-> "no", reason |-> <<"UserSaidNo">>]

(***************************************************************************)
(* Filesystem primitives used by hard_link (std::fs).  Each returns the    *)
(* new directory; the actions below decide whether the call succeeds.      *)
(***************************************************************************)
\* A slip in the backup step: the old file is unlinked, not renamed.
rename_unlinks(d, from, to) == [d EXCEPT ![from] = NoFile]

\* fs::rename(from, to): `to` now names the object, `from` names nothing.
rename(d, from, to) == [d EXCEPT ![to] = d[from], ![from] = NoFile]

\* fs::hard_link(original, link): `link` names the object of `original`.
fs_hard_link(d, original, link) == [d EXCEPT ![link] = d[original]]

\* A slip in the cleanup: the backup is reported removed and stays.
remove_file_keeps(d, p) == d

\* fs::remove_file(p)
remove_file(d, p) == [d EXCEPT ![p] = NoFile]

\* fs::hard_link refuses: no original, the link exists already, or the link
\* would lie on another filesystem than the original (EXDEV).
LinkRefused(d, m, original, link) ==
    \/ ~exists(d, original)
    \/ exists(d, link)
    \/ d[original].dev # m[link.name]

(***************************************************************************)
(* State of a run.                                                         *)
(***************************************************************************)
NoFrame == [left |-> Path(1), right |-> Path(1), did_backup |-> FALSE,
            caller |-> "none"]

\* No call made (yet).
NoCall == [kind |-> "none"]

Hist0 ==
    [iofail |-> FALSE,                       \* some call returned an I/O error
     linkfail |-> FALSE,                     \* the fs::hard_link step failed
     verified |-> <<>>,                      \* is_same_file calls per pair
     hashed |-> {},                          \* paths from_path was run on
     same |-> NoCall,                        \* is_same_file of this iteration
     call |-> NoCall]                        \* the last hard_link call of the loop

\* Every object sits on the filesystem of its directory, and (dev, ino)
\* identifies the object, hence its bytes.  `ps` are the paths that may name
\* a file.
Consistent(d, m, ps) ==
    /\ \A p \in ps : exists(d, p) => d[p].dev = m[p.name]
    /\ \A p, q \in ps :
         (exists(d, p) /\ exists(d, q)
            /\ d[p].dev = d[q].dev /\ d[p].ino = d[q].ino) => d[p].data = d[q].data

\* The calls counted in `log`, and `log` with one more call of `x`.
Calls(log, x) == IF x \in DOMAIN log THEN log[x] ELSE 0
Count(log, x) == (x :> (Calls(log, x) + 1)) @@ log

\* Where dedup_files goes on after a pair: the next pair, or the next group.
AfterPair(pend) == IF pend = {} THEN "groups" ELSE "pairs"

\* The pairs of one group: all ordered pairs, left # right, put in path
\* order, collected in a HashSet.
pairs_of(flist) ==
    {IF PathLt(pr[1], pr[2]) THEN pr ELSE <<pr[2], pr[1]>> :
        pr \in {x \in flist \X flist : x[1] # x[2]}}

(***************************************************************************)
(* utils.rs: hard_link(left, right), one action per filesystem call.  Any  *)
(* call may fail with an I/O error of its own (`fail`).                    *)
(***************************************************************************)
InHardLink == pc \in {"hl_exists", "hl_rename", "hl_link", "hl_remove"}

\* `return`: back to the loop of dedup_files, or to the direct caller.
HLReturn(res, iofail, linkfail) ==
    /\ out' = res
    /\ pc' = IF frame.caller = "dedup" THEN AfterPair(pending) ELSE "returned"
    /\ hist' = [hist EXCEPT !.iofail = @ \/ iofail, !.linkfail = linkfail]

\* if !fs::exists(&tmp_right_path)? { ... }
HLExists ==
    /\ pc = "hl_exists"
    /\ \E fail \in BOOLEAN :
         IF fail
         THEN HLReturn("Err", TRUE, FALSE) /\ UNCHANGED <<dir, frame>>
         ELSE /\ pc' = IF exists(dir, tmp_right_path(frame.right))
                       THEN "hl_link" ELSE "hl_rename"
              /\ UNCHANGED <<dir, frame, out, hist>>
    /\ UNCHANGED <<dir0, mnt, cache, mode, todo, pending, inp>>

\* fs::rename(right, &tmp_right_path)?; did_backup = true;
HLRename ==
    /\ pc = "hl_rename"
    /\ \E fail \in BOOLEAN :
         IF fail \/ ~exists(dir, frame.right)
         THEN HLReturn("Err", TRUE, FALSE) /\ UNCHANGED <<dir, frame>>
         ELSE /\ dir' = rename(dir, frame.right, tmp_right_path(frame.right))
              /\ frame' = [frame EXCEPT !.did_backup = TRUE]
              /\ pc' = "hl_link"
              /\ UNCHANGED <<out, hist>>
    /\ UNCHANGED <<dir0, mnt, cache, mode, todo, pending, inp>>

\* fs::hard_link(left, right)?;
HLLink ==
    /\ pc = "hl_link"
    /\ \E fail \in BOOLEAN :
         IF fail \/ LinkRefused(dir, mnt, frame.left, frame.right)
         THEN HLReturn("Err", TRUE, TRUE) /\ UNCHANGED <<dir, frame>>
         ELSE /\ dir' = fs_hard_link(dir, frame.left, frame.right)
              /\ pc' = "hl_remove"
              /\ UNCHANGED <<frame, out, hist>>
    /\ UNCHANGED <<dir0, mnt, cache, mode, todo, pending, inp>>

\* if did_backup { fs::remove_file(&tmp_right_path)?; } Ok(())
HLRemove ==
    /\ pc = "hl_remove"
    /\ IF ~frame.did_backup
       THEN HLReturn("Ok", FALSE, FALSE) /\ UNCHANGED dir
       ELSE \E fail \in BOOLEAN :
              IF fail \/ ~exists(dir, tmp_right_path(frame.right))
              THEN HLReturn("Err", TRUE, FALSE) /\ UNCHANGED dir
              ELSE /\ dir' = remove_file(dir, tmp_right_path(frame.right))
                   /\ HLReturn("Ok", FALSE, FALSE)
    /\ UNCHANGED <<dir0, mnt, cache, mode, todo, pending, frame, inp>>

\* The process is killed between two filesystem calls of hard_link.
Crash ==
    /\ InHardLink
    /\ pc' = "crashed"
    /\ UNCHANGED <<dir, dir0, mnt, cache, mode, todo, pending, frame, out, hist, inp>>

(***************************************************************************)
(* Initial filesystems.  A slot says what a path names at the start:       *)
(* nothing, or a file with an inode number and contents; its device is     *)
(* that of its directory.                                                  *)
(***************************************************************************)
None == [ino |-> 0, data |-> <<>>]
Slots == {None} \cup [ino : Inos, data : FileData]
Mounts == {m \in [Names -> Devs] : m[1] = 1}

MkObject(slot, dev) ==
    IF slot = None THEN NoFile
    ELSE [dev |-> dev, ino |-> slot.ino, data |-> slot.data]

\* The directory in which the paths of DOMAIN f name the files of f.
MkDir(f, m) ==
    [p \in Paths |-> IF p \in DOMAIN f THEN MkObject(f[p], m[p.name]) ELSE NoFile]

(***************************************************************************)
(* SpecLink: hard_link(left, right) called on any filesystem.              *)
(***************************************************************************)
\* Names can be exchanged: right is taken under name 1, left under 1 or 2.
LinkArgs == {p \in ArgPaths : p.name \in {1, 2}}

InitLink ==
    \E left \in LinkArgs, right \in {p \in LinkArgs : p.name = 1}, m \in Mounts :
      \E f \in [{left, right, tmp_right_path(right)} -> Slots] :
        /\ m[3] = 1
        /\ Consistent(MkDir(f, m), m, DOMAIN f)
        /\ dir = MkDir(f, m)
        /\ dir0 = MkDir(f, m)
        /\ mnt = m
        /\ frame = [left |-> left, right |-> right, did_backup |-> FALSE,
                    caller |-> "direct"]
        /\ pc = "hl_exists"
        /\ cache = HashCacheNew
        /\ mode = "DefaultYes"
        /\ todo = {}
        /\ pending = {}
        /\ out = "none"
        /\ hist = Hist0
        /\ inp = "none"

NextLink == HLExists \/ HLRename \/ HLLink \/ HLRemove \/ Crash

SpecLink == InitLink /\ [][NextLink]_vars

(***************************************************************************)
(* Spec: dedup_files(&cache, prompt_mode) as main calls it, on the cache   *)
(* of a scan of the whole tree.  Groups and pairs come out of a HashMap    *)
(* and a HashSet, so they are visited in any order.                        *)
(***************************************************************************)
Init ==
    \E m \in Mounts, f \in [{Path(n) : n \in Names} -> Slots \ {None}],
       pm \in PromptUserMode :
        /\ Consistent(MkDir(f, m), m, DOMAIN f)
        /\ dir = MkDir(f, m)
        /\ dir0 = MkDir(f, m)
        /\ mnt = m
        /\ cache = from_iter(<<build_hash_cache(MkDir(f, m), Under(MkDir(f, m), 1))>>)
        /\ mode = pm
        /\ pc = "groups"
        /\ todo = duplicates(from_iter(
                    <<build_hash_cache(MkDir(f, m), Under(MkDir(f, m), 1))>>))
        /\ pending = {}
        /\ frame = NoFrame
        /\ out = "none"
        /\ hist = Hist0
        /\ inp = "none"

\* for flist in cache.duplicates() { if flist.len() <= 1 { continue; } ... }
NextGroup ==
    /\ pc = "groups"
    /\ \E k \in todo :
        /\ todo' = todo \ {k}
        /\ pending' = IF Cardinality(cache[k]) <= 1 THEN {} ELSE pairs_of(cache[k])
        /\ pc' = AfterPair(pending')
    /\ UNCHANGED <<dir, dir0, mnt, cache, mode, frame, out, hist, inp>>

\* The loop over the groups ends: dedup_files returns.
Finish ==
    /\ pc = "groups"
    /\ todo = {}
    /\ pc' = "done"
    /\ UNCHANGED <<dir, dir0, mnt, cache, mode, todo, pending, frame, out, hist, inp>>

\* for (left, right) in pairs { match is_same_file(left, right) { ... } }
\* Ok(false) and Err(e) go on with the next pair.
Verify ==
    /\ pc = "pairs"
    /\ \E pr \in pending, fail \in BOOLEAN :
        LET res == IF fail THEN [kind |-> "err"]
                   ELSE is_same_file(dir, pr[1], pr[2])
        IN  /\ pending' = pending \ {pr}
            /\ out' = res
            /\ hist' = [hist EXCEPT
                    !.verified = Count(@, pr),
                    !.iofail = @ \/ res.kind = "err",
                    !.same = IF pr[1] # pr[2] /\ res.kind = "ok" /\ res.val
                             THEN [kind |-> "is_same_file", left |-> pr[1],
                                   right |-> pr[2], res |-> res]
                             ELSE NoCall]
            /\ IF pr[1] # pr[2] /\ res.kind = "ok" /\ res.val
               THEN /\ pc' = "should_link"
                    /\ frame' = [left |-> pr[1], right |-> pr[2],
                                 did_backup |-> FALSE, caller |-> "dedup"]
               ELSE /\ pc' = AfterPair(pending')
                    /\ frame' = frame
    /\ UNCHANGED <<dir, dir0, mnt, cache, mode, todo, inp>>

\* hard_link(left, right) is about to be called by the loop: what the two
\* checks of this iteration returned, and what the filesystem and the user
\* say about the pair at that moment.
HardLinkCall(same, verdict, line) ==
    [kind |-> "hard_link",
     left |-> frame.left,
     right |-> frame.right,
     same |-> same,
     verdict |-> verdict.kind,
     identical |-> exists(dir, frame.left) /\ exists(dir, frame.right)
                     /\ dir[frame.left].data = dir[frame.right].data,
     linked |-> dir[frame.left].dev = dir[frame.right].dev
                  /\ dir[frame.left].ino = dir[frame.right].ino,
     devices |-> <<dir[frame.left].dev, dir[frame.right].dev>>,
     accepted |-> CASE mode = "DefaultYes" -> TRUE
                    [] mode = "DefaultNo" -> FALSE
                    [] OTHER -> line \in YES_RESPONSES]

\* match should_link(left, right, prompt_mode) { ... }: Err(e) and
\* Ok(Err(reason)) go on with the next pair, Ok(Ok(())) calls hard_link; a
\* panic of prompt_bool ends the process.
Eligibility ==
    /\ pc = "should_link"
    /\ \E line \in Lines, fail \in BOOLEAN :
        LET res == IF fail THEN [kind |-> "err"]
                   ELSE should_link(dir, frame.left, frame.right, mode, line)
        IN  /\ out' = res
            /\ hist' = [hist EXCEPT
                    !.iofail = @ \/ res.kind = "err",
                    !.same = NoCall,
                    !.call = IF res.kind = "yes"
                             THEN HardLinkCall(hist.same, res, line)
                             ELSE @]
            /\ pc' = CASE res.kind = "panic" -> "panicked"
                       [] res.kind = "yes" -> "hl_exists"
                       [] OTHER -> AfterPair(pending)
    /\ UNCHANGED <<dir, dir0, mnt, cache, mode, todo, pending, frame, inp>>

Next ==
    \/ NextGroup
    \/ Finish
    \/ Verify
    \/ Eligibility
    \/ HLExists
    \/ HLRename
    \/ HLLink
    \/ HLRemove

Spec == Init /\ [][Next]_vars

(***************************************************************************)
(* SpecScan: main builds one cache per root and folds them with join       *)
(* (from_iter), root after root.  `todo` holds the roots still to scan.    *)
(* Scanning reads only names and contents: every file has its own inode on *)
(* device 1.                                                               *)
(***************************************************************************)
RootLists == UNION {[1..n -> Names] : n \in 1..MaxRoots}

ScanSlot(n, data) == [ino |-> n, data |-> data]

InitScan ==
    \E present \in SUBSET Names, content \in [Names -> FileData], dirs \in RootLists :
      LET f == [p \in {Path(n) : n \in Names} |->
                   IF p.name \in present THEN ScanSlot(p.name, content[p.name])
                   ELSE None]
          m == [n \in Names |-> 1]
      IN  /\ \A n \in Names \ present : content[n] = <<>>
          /\ dir = MkDir(f, m)
          /\ dir0 = MkDir(f, m)
          /\ mnt = m
          /\ cache = HashCacheNew
          /\ mode = "DefaultYes"
          /\ pc = "scan"
          /\ todo = dirs
          /\ pending = {}
          /\ frame = NoFrame
          /\ out = "none"
          /\ hist = [Hist0 EXCEPT !.hashed = <<>>]
          /\ inp = dirs

\* One round of from_iter over args.dirs.map(build_hash_cache): the next root
\* is walked, `files` being the entries hashed without an I/O error, and its
\* cache is joined into the base.
ScanRoot ==
    /\ pc = "scan"
    /\ todo # <<>>
    /\ \E files \in SUBSET Under(dir, Head(todo)) :
        IF HashPanics(dir, files)
        THEN /\ pc' = "panicked"
             /\ UNCHANGED <<cache, todo, hist>>
        ELSE /\ cache' = join(cache, build_hash_cache(dir, files))
             /\ todo' = Tail(todo)
             /\ hist' = [hist EXCEPT !.hashed = Append(@, files)]
             /\ pc' = "scan"
    /\ UNCHANGED <<dir, dir0, mnt, mode, pending, frame, out, inp>>

\* All roots are scanned: the cache is complete and goes to dedup_files.
ScanDone ==
    /\ pc = "scan"
    /\ todo = <<>>
    /\ pc' = "scanned"
    /\ UNCHANGED <<dir, dir0, mnt, cache, mode, todo, pending, frame, out, hist, inp>>

NextScan == ScanRoot \/ ScanDone

SpecScan == InitScan /\ [][NextScan]_vars

(***************************************************************************)
(* SpecCheck: is_same_file and should_link called on any two paths.        *)
(***************************************************************************)
InitCheck ==
    \E left \in {Path(1)}, right \in {Path(1), Path(2)}, m \in Mounts,
       pm \in PromptUserMode :
      \E f \in [{left, right} -> {None} \cup [ino : Inos, data : Data]] :
        /\ m[3] = 1
        /\ Consistent(MkDir(f, m), m, DOMAIN f)
        /\ dir = MkDir(f, m)
        /\ dir0 = MkDir(f, m)
        /\ mnt = m
        /\ cache = HashCacheNew
        /\ mode = pm
        /\ pc = "args"
        /\ todo = {}
        /\ pending = {}
        /\ frame = NoFrame
        /\ out = "none"
        /\ hist = Hist0
        /\ inp = [left |-> left, right |-> right]

CallIsSameFile ==
    /\ pc = "args"
    /\ pc' = "is_same_file"
    /\ out' = is_same_file(dir, inp.left, inp.right)
    /\ UNCHANGED <<dir, dir0, mnt, cache, mode, todo, pending, frame, hist, inp>>

CallShouldLink ==
    /\ pc = "args"
    /\ pc' = "should_link"
    /\ \E line \in Lines :
         out' = should_link(dir, inp.left, inp.right, mode, line)
    /\ UNCHANGED <<dir, dir0, mnt, cache, mode, todo, pending, frame, hist, inp>>

NextCheck == CallIsSameFile \/ CallShouldLink

SpecCheck == InitCheck /\ [][NextCheck]_vars

(***************************************************************************)
(* SpecJoin: join and from_iter on any three caches.                       *)
(***************************************************************************)
JoinKeys == {[sea |-> SeaNew, size |-> n] : n \in 0..MaxFileLen}
JoinPaths == {Path(1), Path(2)}
Caches == UNION {[K -> SUBSET JoinPaths \ {{}}] : K \in SUBSET JoinKeys}

Orders3 == {s \in [1..3 -> 1..3] : \A i, j \in 1..3 : s[i] = s[j] => i = j}

InitJoin ==
    \E a \in Caches, b \in Caches, c \in Caches :
        /\ inp = <<a, b, c>>
        /\ pc = "args"
        /\ out = "none"
        /\ dir = MkDir(<<>>, [n \in Names |-> 1])
        /\ dir0 = MkDir(<<>>, [n \in Names |-> 1])
        /\ mnt = [n \in Names |-> 1]
        /\ cache = HashCacheNew
        /\ mode = "DefaultYes"
        /\ todo = {}
        /\ pending = {}
        /\ frame = NoFrame
        /\ hist = Hist0

CallJoin ==
    /\ pc = "args"
    /\ pc' = "joined"
    /\ out' = [ab |-> join(inp[1], inp[2]),
               ba |-> join(inp[2], inp[1]),
               ab_c |-> join(join(inp[1], inp[2]), inp[3]),
               a_bc |-> join(inp[1], join(inp[2], inp[3]))]
    /\ UNCHANGED <<dir, dir0, mnt, cache, mode, todo, pending, frame, hist, inp>>

\* The caches collected in each of the orders the roots can come in.
CallFromIter ==
    /\ pc = "args"
    /\ pc' = "collected"
    /\ out' = {from_iter([i \in 1..3 |-> inp[s[i]]]) : s \in Orders3}
    /\ UNCHANGED <<dir, dir0, mnt, cache, mode, todo, pending, frame, hist, inp>>

NextJoin == CallJoin \/ CallFromIter

SpecJoin == InitJoin /\ [][NextJoin]_vars

(***************************************************************************)
(* The sampling of one file by its size (SpecSkip): calculate_skiplen and   *)
(* the loop of from_path on a file of `inp.size` bytes, in a build with or  *)
(* without overflow checks.  Only the length of the file matters to the    *)
(* cursor, so the contents are left out.                                   *)
(***************************************************************************)
MaxSizeSteps == 64

\* File sizes from MIN_SAMPLES * SAMPLE_SIZE up in steps of half a KB, the
\* sizes next to the thresholds, and two large ones.
SkipSizes ==
    {MIN_SAMPLES * SAMPLE_SIZE + i * (KB \div 2) : i \in 0..MaxSizeSteps}
        \cup {MIN_SAMPLES * SAMPLE_SIZE + 1,
              MAX_SAMPLES * SAMPLE_SIZE - 1, MAX_SAMPLES * SAMPLE_SIZE + 1,
              MB, GB}

RECURSIVE SampleChunks(_, _, _)
\* The chunks [off, len] the loop of from_path feeds to the hasher on a file
\* of `filesize` bytes with the cursor at `pos`: read_exact_or_end, write,
\* break on a short read, else seek(SeekFrom::Current(skiplen)).
SampleChunks(filesize, pos, skiplen) ==
    LET read_count == IF pos >= filesize THEN 0
                      ELSE Min(SAMPLE_SIZE, filesize - pos)
        chunk == [off |-> pos, len |-> read_count]
    IN  IF read_count # SAMPLE_SIZE THEN <<chunk>>
        ELSE <<chunk>> \o SampleChunks(filesize, pos + read_count + skiplen,
                                       skiplen)

\* from_path as far as the cursor goes: the size by seek(SeekFrom::End(0)),
\* the skip length, then the loop from where the cursor is.
sample_file(filesize, overflow_checks) ==
    LET skip == calculate_skiplen(filesize, SAMPLE_SIZE, overflow_checks)
    IN  IF skip.panic THEN [kind |-> "panic", skiplen |-> skip.val,
                            chunks |-> <<>>]
        ELSE [kind |-> "ok", skiplen |-> skip.val,
              chunks |-> SampleChunks(filesize, filesize, skip.val)]

InitSkip ==
    /\ inp \in [size : SkipSizes, overflow_checks : BOOLEAN]
    /\ pc = "args"
    /\ out = "none"
    /\ dir = MkDir(<<>>, [n \in Names |-> 1])
    /\ dir0 = MkDir(<<>>, [n \in Names |-> 1])
    /\ mnt = [n \in Names |-> 1]
    /\ cache = HashCacheNew
    /\ mode = "DefaultYes"
    /\ todo = {}
    /\ pending = {}
    /\ frame = NoFrame
    /\ hist = Hist0

\* let skiplen = calculate_skiplen(size, SAMPLE_SIZE);
CallCalculateSkiplen ==
    /\ pc = "args"
    /\ pc' = "skiplen"
    /\ out' = calculate_skiplen(inp.size, SAMPLE_SIZE, inp.overflow_checks)
    /\ UNCHANGED <<dir, dir0, mnt, cache, mode, todo, pending, frame, hist, inp>>

\* FileHashes::from_path on a file of inp.size bytes.
CallSampleFile ==
    /\ pc = "args"
    /\ pc' = "sampled"
    /\ out' = sample_file(inp.size, inp.overflow_checks)
    /\ UNCHANGED <<dir, dir0, mnt, cache, mode, todo, pending, frame, hist, inp>>

NextSkip == CallCalculateSkiplen \/ CallSampleFile

SpecSkip == InitSkip /\ [][NextSkip]_vars

(***************************************************************************)
(* Claims about hard_link (SpecLink).                                      *)
(***************************************************************************)
SameInode(d, p, q) ==
    /\ exists(d, p)
    /\ exists(d, q)
    /\ d[p].dev = d[q].dev
    /\ d[p].ino = d[q].ino

Returned(res) == pc = "returned" /\ out = res

\* C3 (as stated): whenever hard_link(left, right) returns Ok, right and left
\* share one inode and no file exists at the backup path of right, whatever
\* the filesystem held when it was called.
C3_Original ==
    (Returned("Ok") /\ exists(dir0, frame.left)
        /\ frame.left.name # frame.right.name) =>
        /\ SameInode(dir, frame.left, frame.right)
        /\ ~exists(dir, tmp_right_path(frame.right))

\* C3 (amended): whenever hard_link(left, right) returns Ok and left existed
\* when it was called, right and left share one inode, and a file exists at
\* the backup path only if one was there when hard_link was called: that file
\* is left in place, untouched.
C3_OkLinkedBackupOnlyIfStale ==
    (Returned("Ok") /\ exists(dir0, frame.left)) =>
        /\ SameInode(dir, frame.left, frame.right)
        /\ exists(dir, tmp_right_path(frame.right)) =>
             /\ exists(dir0, tmp_right_path(frame.right))
             /\ dir[tmp_right_path(frame.right)] = dir0[tmp_right_path(frame.right)]

\* C3 witness: an Ok return after right was renamed away, replaced by a link
\* to left, and the backup made on the way was removed.
C3_Witness ==
    /\ Returned("Ok")
    /\ frame.did_backup
    /\ exists(dir0, frame.left)
    /\ exists(dir0, frame.right)
    /\ ~SameInode(dir0, frame.left, frame.right)
    /\ SameInode(dir, frame.left, frame.right)
    /\ ~exists(dir, tmp_right_path(frame.right))

\* C4: whenever the fs::hard_link step of hard_link(left, right) fails, on
\* return a file exists at the backup path and its content is the content
\* right had when hard_link was called, also when a backup file was already
\* there.
C4_BackupHoldsRightOnLinkFailure ==
    (pc = "returned" /\ hist.linkfail /\ exists(dir0, frame.right)
        /\ exists(dir0, frame.left) /\ frame.left.name # frame.right.name) =>
        /\ exists(dir, tmp_right_path(frame.right))
        /\ dir[tmp_right_path(frame.right)].data = dir0[frame.right].data

\* C5: when right exists and is byte-identical to left on entry, then after
\* every filesystem step of hard_link (the call running, returned or killed)
\* right or the backup path holds the original content of right.
C5_RightBytesNeverLost ==
    (/\ exists(dir0, frame.left)
     /\ exists(dir0, frame.right)
     /\ dir0[frame.left].data = dir0[frame.right].data) =>
        \/ /\ exists(dir, frame.right)
           /\ dir[frame.right].data = dir0[frame.right].data
        \/ /\ exists(dir, tmp_right_path(frame.right))
           /\ dir[tmp_right_path(frame.right)].data = dir0[frame.right].data

\* C5 witness: the process was killed after the rename: right names nothing
\* and its bytes are at the backup path.
C5_Witness ==
    /\ pc = "crashed"
    /\ exists(dir0, frame.left)
    /\ exists(dir0, frame.right)
    /\ dir0[frame.left].data = dir0[frame.right].data
    /\ ~exists(dir, frame.right)
    /\ exists(dir, tmp_right_path(frame.right))
    /\ dir[tmp_right_path(frame.right)].data = dir0[frame.right].data

(***************************************************************************)
(* Claims about dedup_files (Spec).                                        *)
(***************************************************************************)
\* The group of key k held, when the run started, files that are all
\* byte-identical, on one filesystem and on pairwise distinct inodes.
FreshIdenticalGroup(k) ==
    \A p, q \in cache[k] :
        /\ dir0[p].data = dir0[q].data
        /\ dir0[p].dev = dir0[q].dev
        /\ (p # q => dir0[p].ino # dir0[q].ino)

\* C1: for a duplicate group of n >= 2 byte-identical paths on one filesystem
\* and on pairwise distinct inodes, a run of dedup_files in DefaultYes mode
\* without any I/O failure ends with all n paths on one inode, in whatever
\* order the pairs were visited.
C1_GroupCollapsesToOneInode ==
    (pc = "done" /\ mode = "DefaultYes" /\ ~hist.iofail) =>
        \A k \in duplicates(cache) :
            FreshIdenticalGroup(k) =>
                \A p, q \in cache[k] : SameInode(dir, p, q)

\* C9: dedup_files is best-effort: when the run has ended, every unordered
\* pair of every duplicate group has been through is_same_file exactly once,
\* whatever the outcome of the pairs before it.
C9_EveryPairVerifiedOnce ==
    pc \in {"done", "panicked"} =>
        \A k \in duplicates(cache) :
            \A pr \in pairs_of(cache[k]) : Calls(hist.verified, pr) = 1

(***************************************************************************)
(* Claims about is_same_file and should_link (SpecCheck).                  *)
(***************************************************************************)
BothExist == exists(dir, inp.left) /\ exists(dir, inp.right)

\* C2: absent I/O errors, is_same_file(left, right) returns true exactly when
\* the contents of the two paths are byte-identical, on one filesystem or on
\* two, early returns included.
C2_SameFileIffSameBytes ==
    (pc = "is_same_file" /\ BothExist /\ out.kind = "ok") =>
        (out.val <=> dir[inp.left].data = dir[inp.right].data)

\* C7: in every mode, when left and right lie on different filesystems,
\* should_link answers not-eligible with DifferentFilesystems(devL, devR),
\* whatever the inode numbers are.
C7_DifferentFilesystemsReported ==
    (pc = "should_link" /\ BothExist
        /\ dir[inp.left].dev # dir[inp.right].dev) =>
        out = [kind |-> "no",
               reason |-> <<"DifferentFilesystems",
                            dir[inp.left].dev, dir[inp.right].dev>>]

(***************************************************************************)
(* Claims about HashCache::join and from_iter (SpecJoin).                  *)
(***************************************************************************)
\* C6: join is commutative and associative on the mapping from fingerprints
\* to path-sets, and folding three caches with from_iter gives one and the
\* same cache in every order.
C6_JoinCommutativeAssociative ==
    /\ pc = "joined" => (out.ab = out.ba /\ out.ab_c = out.a_bc)
    /\ pc = "collected" => Cardinality(out) = 1

\* C6 witness: two caches share a key under which they hold different paths,
\* and the join holds the union under it, in both orders.
C6_Witness ==
    /\ pc = "joined"
    /\ \E k \in DOMAIN inp[1] \cap DOMAIN inp[2] :
         /\ inp[1][k] # inp[2][k]
         /\ out.ab[k] = inp[1][k] \cup inp[2][k]
         /\ out.ba[k] = inp[1][k] \cup inp[2][k]
    /\ DOMAIN inp[1] # DOMAIN inp[2]

(***************************************************************************)
(* Claims about the scan (SpecScan).                                       *)
(***************************************************************************)
\* The paths hashed by some scan of a root so far.
Hashed == UNION {hist.hashed[i] : i \in DOMAIN hist.hashed}

\* The fingerprint of a file of no bytes: nothing is fed to the hasher.
EmptyHashes == [sea |-> SeaNew, size |-> 0]

\* C8 (as stated): from_path on a file of size 0 is a hard failure and never
\* gives a fingerprint, so no empty file is ever in the cache.
C8_Original ==
    \A k \in DOMAIN cache : \A p \in cache[k] : size(dir[p]) # 0

\* C8 (amended): from_path on a file of size 0 is no failure: it returns the
\* fingerprint (hash of no bytes, size 0), the scan does not panic, and every
\* empty file hashed is in the cache under that fingerprint.
C8_EmptyFileIsFingerprinted ==
    /\ pc # "panicked"
    /\ \A p \in Hashed :
         size(dir[p]) = 0 => (EmptyHashes \in DOMAIN cache /\ p \in cache[EmptyHashes])

\* C8 witness: two empty files have been hashed and form a duplicate group.
C8_Witness ==
    /\ pc = "scanned"
    /\ \E p, q \in Hashed : p # q /\ size(dir[p]) = 0 /\ size(dir[q]) = 0
    /\ EmptyHashes \in duplicates(cache)

\* C10: in every state of the cache built by the scans and joins of main, no
\* path is in the path-set of two fingerprints, also when the roots overlap
\* and a path is fingerprinted more than once.
C10_PathUnderOneFingerprint ==
    \A p \in Paths : Cardinality({k \in DOMAIN cache : p \in cache[k]}) <= 1

\* C10 witness: overlapping roots made the scan hash one path twice, and the
\* cache holds several fingerprints.
C10_Witness ==
    /\ pc = "scanned"
    /\ Len(hist.hashed) = 2
    /\ \E p \in hist.hashed[1] \cap hist.hashed[2] :
         Cardinality({k \in DOMAIN cache : p \in cache[k]}) = 1
    /\ Cardinality(DOMAIN cache) >= 2

(***************************************************************************)
(* Claims about the skip length (SpecSkip).                                *)
(***************************************************************************)
\* The chunks hashed go strictly forward and do not overlap.
ForwardDisjoint(chunks) ==
    \A i \in 1..(Len(chunks) - 1) :
        chunks[i].off + chunks[i].len <= chunks[i + 1].off

\* C11: for every file size greater than MIN_SAMPLES * SAMPLE_SIZE the skip
\* length calculate_skiplen returns is non-negative and its unsigned
\* subtraction does not underflow, and the loop of from_path seeks forward
\* after each full chunk, so that no byte is hashed twice.
C11_SkipLengthNonNegative ==
    inp.size > MIN_SAMPLES * SAMPLE_SIZE =>
        /\ pc = "skiplen" => (~out.panic /\ out.val >= 0)
        /\ pc = "sampled" =>
             /\ out.kind = "ok"
             /\ out.skiplen >= 0
             /\ ForwardDisjoint(out.chunks)

(***************************************************************************)
(* Claims about the gate before hard_link in dedup_files (Spec).           *)
(***************************************************************************)
\* C12: in every run of dedup_files, hard_link(left, right) runs for a pair
\* only after is_same_file returned Ok(true) and should_link returned
\* Ok(Ok(())) for that pair in the same iteration, and no path is renamed or
\* replaced for a pair whose files differ in content, already share an
\* inode, lie on different devices, or when the mode is DefaultNo or the
\* user declined.
C12_HardLinkOnlyAfterBothChecks ==
    /\ (InHardLink /\ frame.caller = "dedup") =>
         /\ hist.call # NoCall
         /\ hist.call.left = frame.left
         /\ hist.call.right = frame.right
    /\ dir # dir0 => hist.call # NoCall
    /\ hist.call # NoCall =>
         /\ hist.call.same = [kind |-> "is_same_file",
                              left |-> hist.call.left,
                              right |-> hist.call.right,
                              res |-> [kind |-> "ok", val |-> TRUE]]
         /\ hist.call.verdict = "yes"
         /\ hist.call.identical
         /\ ~hist.call.linked
         /\ hist.call.devices[1] = hist.call.devices[2]
         /\ mode # "DefaultNo"
         /\ hist.call.accepted

\* C12 witness: the user was asked, hard_link has replaced the right path of
\* a pair, and the loop is over.
C12_Witness ==
    /\ pc = "done"
    /\ mode = "Prompt"
    /\ hist.call # NoCall
    /\ dir # dir0
    /\ SameInode(dir, hist.call.left, hist.call.right)

====
